---- MODULE Spec2Model ----
(***************************************************************************)
(* Model of the classification-and-rendering pipeline of the `naming`      *)
(* command line tool: Filter and Convertor of crates/clt_lib/src/          *)
(* conversion.rs and the driver of crates/core/main.rs.                    *)
(*                                                                         *)
(* A string is a sequence of symbols.  Identifier characters are one-      *)
(* character strings; the fixed pieces of an output (a JSON key, a quote,  *)
(* a separator) are symbols of their own, so the real output is the        *)
(* concatenation of the symbols of the sequence.                           *)
(***************************************************************************)
EXTENDS Integers, Sequences, FiniteSets, TLC

\* ------------------------------------------------------------------ bounds
MaxLen == 3
MaxWords == 2
MaxOpts == 2

\* ------------------------------------------------------------ characters
Lowers == {"a"}
Uppers == {"A"}
Digits == {"1"}
Alphabet == Lowers \cup Uppers \cup Digits \cup {"_", "-"}

ToLowerChar(c) == IF c = "A" THEN "a" ELSE c
ToUpperChar(c) == IF c = "a" THEN "A" ELSE c

ToLower(s) == [i \in 1..Len(s) |-> ToLowerChar(s[i])]
ToUpper(s) == [i \in 1..Len(s) |-> ToUpperChar(s[i])]

SeqsUpTo(S, n) == UNION {[1..k -> S] : k \in 0..n}

Range(s) == {s[i] : i \in 1..Len(s)}

\* Vec::contains
Contains(s, x) == \E i \in 1..Len(s) : s[i] = x

\* ------------------------------------------------- results of operations
NotRun == [st |-> "none", val |-> <<>>]
Ok(v) == [st |-> "ok", val |-> v]
Panicked == [st |-> "panic", val |-> <<>>]
ConflictingOptions == [st |-> "err", val |-> <<"ConflictingOptions">>]
OtherError == [st |-> "err", val |-> <<"OtherError">>]

\* ------------------------------------------------- Case Predicate Set
is_screaming_snake(w) ==
    /\ w # <<>>
    /\ \A i \in 1..Len(w) : w[i] \in Uppers \cup Digits \cup {"_"}
    /\ \E i \in 1..Len(w) : w[i] \in Uppers

is_snake(w) ==
    /\ w # <<>>
    /\ \A i \in 1..Len(w) : w[i] \in Lowers \cup Digits \cup {"_"}

is_kebab(w) ==
    /\ w # <<>>
    /\ \A i \in 1..Len(w) : w[i] \in Lowers \cup Digits \cup {"-"}

is_camel(w) ==
    /\ w # <<>>
    /\ w[1] \in Lowers
    /\ \A i \in 2..Len(w) : w[i] \in Lowers \cup Uppers \cup Digits

is_pascal(w) ==
    /\ w # <<>>
    /\ w[1] \in Uppers
    /\ \A i \in 2..Len(w) : w[i] \in Lowers \cup Uppers \cup Digits

\* ------------------------------------------------------ Case Classifier
NamingCase(tag, payload) == [tag |-> tag, payload |-> payload]

which_case(w) ==
    IF is_screaming_snake(w) THEN NamingCase("ScreamingSnake", w)
    ELSE IF is_snake(w) THEN NamingCase("Snake", w)
    ELSE IF is_kebab(w) THEN NamingCase("Kebab", w)
    ELSE IF is_camel(w) THEN NamingCase("Camel", w)
    ELSE IF is_pascal(w) THEN NamingCase("Pascal", w)
    ELSE NamingCase("Invalid", w)

RECURSIVE DropLeadingLowers(_)
DropLeadingLowers(w) ==
    IF w # <<>> /\ w[1] \in Lowers THEN DropLeadingLowers(Tail(w)) ELSE w

from_hungarian_notation(w) == NamingCase("Pascal", DropLeadingLowers(w))

\* ---------------------------------------------------------------- Filter
FilterTags == {"S", "s", "k", "c", "h", "p"}

\* Mutant: only notices an h that comes before a c.
has_hungarian_camel_conflict_ordered(options) ==
    \E i \in 1..Len(options) : \E j \in i..Len(options) :
        options[i] = "h" /\ options[j] = "c"

has_hungarian_camel_conflict(options) ==
    Contains(options, "h") /\ Contains(options, "c")

\* Mutant: accepts every option list.
Filter_new_unchecked(options) == Ok(options)

Filter_new(options) ==
    IF has_hungarian_camel_conflict(options)
    THEN ConflictingOptions
    ELSE Ok(options)

PREDICATES ==
    << <<"S", "is_screaming_snake">>,
       <<"s", "is_snake">>,
       <<"k", "is_kebab">>,
       <<"c", "is_camel">>,
       <<"h", "is_camel">>,
       <<"p", "is_pascal">> >>

ApplyPredicate(f, w) ==
    CASE f = "is_screaming_snake" -> is_screaming_snake(w)
      [] f = "is_snake" -> is_snake(w)
      [] f = "is_kebab" -> is_kebab(w)
      [] f = "is_camel" -> is_camel(w)
      [] f = "is_pascal" -> is_pascal(w)

\* Iterator::reduce(|a, b| a || b): None on an empty iterator.
RECURSIVE FoldOr(_, _)
FoldOr(acc, bs) == IF bs = <<>> THEN acc ELSE FoldOr(acc \/ Head(bs), Tail(bs))

ReduceOr(bs) ==
    IF bs = <<>>
    THEN [some |-> FALSE, val |-> FALSE]
    ELSE [some |-> TRUE, val |-> FoldOr(Head(bs), Tail(bs))]

SelectedPredicates(options) ==
    LET sel == SelectSeq(PREDICATES, LAMBDA p : Contains(options, p[1]))
    IN  [i \in 1..Len(sel) |-> sel[i][2]]

filter_words_with_options(options, words) ==
    LET predicates == SelectedPredicates(options)
        verdict(w) == ReduceOr([i \in 1..Len(predicates) |->
                                    ApplyPredicate(predicates[i], w)])
    IN  IF \E i \in 1..Len(words) : ~verdict(words[i]).some
        THEN Panicked
        ELSE Ok(SelectSeq(words, LAMBDA w : verdict(w).val))

\* Mutant: treats every surviving word as hungarian notation once h is asked for.
to_naming_cases_from_no_camel_check(options, words) ==
    LET filtered == filter_words_with_options(options, words)
        required_hungarian == Contains(options, "h")
    IN  IF filtered.st = "panic"
        THEN Panicked
        ELSE Ok([i \in 1..Len(filtered.val) |->
                    IF required_hungarian
                    THEN from_hungarian_notation(filtered.val[i])
                    ELSE which_case(filtered.val[i])])

to_naming_cases_from(options, words) ==
    LET filtered == filter_words_with_options(options, words)
        required_hungarian == Contains(options, "h")
    IN  IF filtered.st = "panic"
        THEN Panicked
        ELSE Ok([i \in 1..Len(filtered.val) |->
                    IF required_hungarian /\ is_camel(filtered.val[i])
                    THEN from_hungarian_notation(filtered.val[i])
                    ELSE which_case(filtered.val[i])])

\* ------------------------------------------------------- Renderer Table
\* str::split(sep): the pieces between the separators, empty pieces kept.
SplitOn(s, sep) ==
    LET cuts == <<0>> \o SelectSeq([i \in 1..Len(s) |-> i], LAMBDA i : s[i] = sep)
                      \o <<Len(s) + 1>>
    IN  [k \in 1..(Len(cuts) - 1) |-> SubSeq(s, cuts[k] + 1, cuts[k + 1] - 1)]

\* Words of a camel or pascal identifier: a new word at every uppercase letter.
RECURSIVE SplitUpper(_)
SplitUpper(s) ==
    IF s = <<>> THEN <<>>
    ELSE LET rest == SplitUpper(Tail(s))
         IN  IF rest = <<>> \/ (Len(s) > 1 /\ s[2] \in Uppers)
             THEN << <<Head(s)>> >> \o rest
             ELSE << <<Head(s)>> \o Head(rest) >> \o Tail(rest)

RECURSIVE Concat(_)
Concat(parts) == IF parts = <<>> THEN <<>> ELSE Head(parts) \o Concat(Tail(parts))

RECURSIVE Join(_, _)
Join(parts, sep) ==
    IF parts = <<>> THEN <<>>
    ELSE IF Len(parts) = 1 THEN Head(parts)
    ELSE Head(parts) \o <<sep>> \o Join(Tail(parts), sep)

Capitalize(w) == IF w = <<>> THEN <<>> ELSE <<ToUpperChar(Head(w))>> \o Tail(w)

extract_words(case) ==
    LET raw == CASE case.tag \in {"ScreamingSnake", "Snake"} -> SplitOn(case.payload, "_")
                 [] case.tag = "Kebab" -> SplitOn(case.payload, "-")
                 [] OTHER -> SplitUpper(case.payload)
    IN  [i \in 1..Len(raw) |-> ToLower(raw[i])]

to_screaming_snake(case) == ToUpper(Join(extract_words(case), "_"))
to_snake(case) == Join(extract_words(case), "_")
to_kebab(case) == Join(extract_words(case), "-")
to_camel(case) ==
    LET ws == extract_words(case)
    IN  Concat([i \in 1..Len(ws) |-> IF i = 1 THEN ws[i] ELSE Capitalize(ws[i])])
to_pascal(case) ==
    LET ws == extract_words(case)
    IN  Concat([i \in 1..Len(ws) |-> Capitalize(ws[i])])

RenderTags == {"S", "s", "k", "c", "p"}

DIRECT_MAPPERS ==
    [t \in RenderTags |->
        CASE t = "S" -> "to_screaming_snake"
          [] t = "s" -> "to_snake"
          [] t = "k" -> "to_kebab"
          [] t = "c" -> "to_camel"
          [] t = "p" -> "to_pascal"]

JSON_MAPPERS ==
    [t \in RenderTags |->
        CASE t = "S" -> "json_screaming_snake"
          [] t = "s" -> "json_snake"
          [] t = "k" -> "json_kebab"
          [] t = "c" -> "json_camel"
          [] t = "p" -> "json_pascal"]

JsonField(name, value) == <<"\"" \o name \o "\":\"">> \o value \o <<"\"">>

ApplyMapper(f, case) ==
    CASE f = "to_screaming_snake" -> to_screaming_snake(case)
      [] f = "to_snake" -> to_snake(case)
      [] f = "to_kebab" -> to_kebab(case)
      [] f = "to_camel" -> to_camel(case)
      [] f = "to_pascal" -> to_pascal(case)
      [] f = "json_screaming_snake" -> JsonField("screaming_snake", to_screaming_snake(case))
      [] f = "json_snake" -> JsonField("snake", to_snake(case))
      [] f = "json_kebab" -> JsonField("kebab", to_kebab(case))
      [] f = "json_camel" -> JsonField("camel", to_camel(case))
      [] f = "json_pascal" -> JsonField("pascal", to_pascal(case))

\* Display of a NamingCase: the string it carries.
to_string(case) == case.payload

\* ------------------------------------------------------------- Convertor
Convertor_new(options, cs) == [options |-> options, cases |-> cs]

\* Mutant: walks the renderer table and keeps the entries that were asked for.
select_mappers_in_table_order(self, mappers) ==
    IF \E i \in 1..Len(self.options) : self.options[i] \notin DOMAIN mappers
    THEN Panicked
    ELSE LET order == SelectSeq(<<"S", "s", "k", "c", "p">>,
                                LAMBDA t : Contains(self.options, t))
         IN  Ok([i \in 1..Len(order) |-> mappers[order[i]]])

select_mappers_base_on_options(self, mappers) ==
    IF \E i \in 1..Len(self.options) : self.options[i] \notin DOMAIN mappers
    THEN Panicked
    ELSE Ok([i \in 1..Len(self.options) |-> mappers[self.options[i]]])

Rendered(mappers, case) == [i \in 1..Len(mappers) |-> ApplyMapper(mappers[i], case)]

\* Mutant: takes the JSON-field table where the direct one is meant.
into_lines_with_json_mappers(self) ==
    LET mappers == select_mappers_base_on_options(self, JSON_MAPPERS)
    IN  IF mappers.st = "panic" THEN Panicked
        ELSE Ok(Join([i \in 1..Len(self.cases) |->
                        to_string(self.cases[i]) \o <<" ">>
                            \o Join(Rendered(mappers.val, self.cases[i]), " ")],
                     "\n"))

into_lines(self) ==
    LET mappers == select_mappers_base_on_options(self, DIRECT_MAPPERS)
    IN  IF mappers.st = "panic" THEN Panicked
        ELSE Ok(Join([i \in 1..Len(self.cases) |->
                        to_string(self.cases[i]) \o <<" ">>
                            \o Join(Rendered(mappers.val, self.cases[i]), " ")],
                     "\n"))

into_json(self) ==
    LET mappers == select_mappers_base_on_options(self, JSON_MAPPERS)
    IN  IF mappers.st = "panic" THEN Panicked
        ELSE Ok(<<"{", "\"result\":", "[">>
                \o Join([i \in 1..Len(self.cases) |->
                            <<"{", "\"origin\":\"">> \o to_string(self.cases[i])
                                \o <<"\"", ",">>
                                \o Join(Rendered(mappers.val, self.cases[i]), ",")
                                \o <<"}">>],
                        ",")
                \o <<"]", "}">>)

into_regex(self) ==
    LET mappers == select_mappers_base_on_options(self, DIRECT_MAPPERS)
    IN  IF mappers.st = "panic" THEN Panicked
        ELSE Ok(Join([i \in 1..Len(self.cases) |->
                        to_string(self.cases[i]) \o <<" ">>
                            \o Join(Rendered(mappers.val, self.cases[i]), "|")],
                     "\n"))

into_regex_json(self) ==
    LET mappers == select_mappers_base_on_options(self, DIRECT_MAPPERS)
    IN  IF mappers.st = "panic" THEN Panicked
        ELSE Ok(<<"{", "\"result\":", "[">>
                \o Join([i \in 1..Len(self.cases) |->
                            <<"{", "\"origin\":\"">> \o to_string(self.cases[i])
                                \o <<"\"", ",", "\"regex\":\"">>
                                \o Join(Rendered(mappers.val, self.cases[i]), "|")
                                \o <<"\"", "}">>],
                        ",")
                \o <<"]", "}">>)

\* ------------------------------------------------------------ input sets
Strings == SeqsUpTo(Alphabet, MaxLen)

SampleWords ==
    { <<"A", "_", "A">>, <<"a", "_", "a">>, <<"a", "-", "a">>,
      <<"a", "A">>, <<"A", "a">>, <<"-", "_">> }

WordLists == {<<w>> : w \in Strings} \cup SeqsUpTo(SampleWords, MaxWords)

FilterOptionLists == SeqsUpTo(FilterTags, MaxOpts)

OutputOptionLists == SeqsUpTo(FilterTags, MaxOpts)

ClassifiedTokens ==
    {which_case(w) : w \in {x \in Strings : which_case(x).tag # "Invalid"}}
        \cup {from_hungarian_notation(w) : w \in {x \in Strings : is_camel(x)}}

SampleCases ==
    {which_case(w) : w \in {x \in SampleWords : which_case(x).tag # "Invalid"}}

\* Inputs of the end-to-end runs: every filter option list, a few output
\* option lists and a few captured word lists.
PipelineOutputOpts == { <<>>, <<"s">>, <<"p", "S">>, <<"h">> }

PipelineWordLists ==
    { <<>>, << <<"a", "A">> >>, << <<"a", "_", "a">>, <<"-", "_">>, <<"A", "a">> >> }

CaseLists == {<<c>> : c \in ClassifiedTokens} \cup SeqsUpTo(SampleCases, MaxWords)

\* ------------------------------------------------------------------ state
VARIABLES pc, filterOpts, outputOpts, json, regex, words, filter, kept, cases,
          convertor, output, result, exitCode

vars == <<pc, filterOpts, outputOpts, json, regex, words, filter, kept, cases,
          convertor, output, result, exitCode>>

NoConvertor == [options |-> <<>>, cases |-> <<>>]
NoExit == -1

\* ------------------------------------------- the Filter, called directly
InitFilter ==
    /\ pc = "filter_new"
    /\ filterOpts \in FilterOptionLists
    /\ words \in WordLists
    /\ outputOpts = <<>>
    /\ json = FALSE
    /\ regex = FALSE
    /\ filter = NotRun
    /\ kept = NotRun
    /\ cases = NotRun
    /\ convertor = NoConvertor
    /\ output = NotRun
    /\ result = NotRun
    /\ exitCode = NoExit

FilterNew ==
    /\ pc = "filter_new"
    /\ filter' = Filter_new(filterOpts)
    /\ pc' = IF filter'.st = "ok" THEN "filter_ready" ELSE "failed"
    /\ UNCHANGED <<filterOpts, outputOpts, json, regex, words, kept, cases,
                   convertor, output, result, exitCode>>

FilterWords ==
    /\ pc = "filter_ready"
    /\ kept' = filter_words_with_options(filter.val, words)
    /\ pc' = IF kept'.st = "panic" THEN "panicked" ELSE "filtered"
    /\ UNCHANGED <<filterOpts, outputOpts, json, regex, words, filter, cases,
                   convertor, output, result, exitCode>>

ToNamingCases ==
    /\ pc = "filter_ready"
    /\ cases' = to_naming_cases_from(filter.val, words)
    /\ pc' = IF cases'.st = "panic" THEN "panicked" ELSE "classified"
    /\ UNCHANGED <<filterOpts, outputOpts, json, regex, words, filter, kept,
                   convertor, output, result, exitCode>>

NextFilter == FilterNew \/ FilterWords \/ ToNamingCases

SpecFilter == InitFilter /\ [][NextFilter]_vars

\* ---------------------------------------- the Convertor, called directly
InitConvertor ==
    /\ pc = "convertor_ready"
    /\ outputOpts \in OutputOptionLists
    /\ cases \in {Ok(cs) : cs \in CaseLists}
    /\ convertor = Convertor_new(outputOpts, cases.val)
    /\ filterOpts = <<>>
    /\ json = FALSE
    /\ regex = FALSE
    /\ words = <<>>
    /\ filter = NotRun
    /\ kept = NotRun
    /\ output = NotRun
    /\ result = NotRun
    /\ exitCode = NoExit

Render(shape, out) ==
    /\ pc = "convertor_ready"
    /\ output' = out
    /\ pc' = IF out.st = "panic" THEN "panicked" ELSE shape
    /\ UNCHANGED <<filterOpts, outputOpts, json, regex, words, filter, kept,
                   cases, convertor, result, exitCode>>

IntoLines == Render("lines", into_lines(convertor))

IntoJson == Render("json", into_json(convertor))

IntoRegex == Render("regex", into_regex(convertor))

IntoRegexJson == Render("regex_json", into_regex_json(convertor))

NextConvertor == IntoLines \/ IntoJson \/ IntoRegex \/ IntoRegexJson

SpecConvertor == InitConvertor /\ [][NextConvertor]_vars

\* ------------------------------------------------- the end-to-end run
Init ==
    /\ pc = "get_text"
    /\ filterOpts \in FilterOptionLists
    /\ outputOpts \in PipelineOutputOpts
    /\ json \in BOOLEAN
    /\ regex \in BOOLEAN
    /\ words = <<>>
    /\ filter = NotRun
    /\ kept = NotRun
    /\ cases = NotRun
    /\ convertor = NoConvertor
    /\ output = NotRun
    /\ result = NotRun
    /\ exitCode = NoExit

\* get_text_from_input: the text is read, or there is no input to read.
GetTextFromInput ==
    /\ pc = "get_text"
    /\ \/ /\ pc' = "wrap_filter_new"
          /\ UNCHANGED result
       \/ /\ result' = OtherError
          /\ pc' = "exit"
    /\ UNCHANGED <<filterOpts, outputOpts, json, regex, words, filter, kept,
                   cases, convertor, output, exitCode>>

\* wrap_text_with_converter: Filter::new(option("filter"))?
WrapFilterNew ==
    /\ pc = "wrap_filter_new"
    /\ filter' = Filter_new(filterOpts)
    /\ IF filter'.st = "ok"
       THEN pc' = "wrap_capture" /\ UNCHANGED result
       ELSE pc' = "exit" /\ result' = filter'
    /\ UNCHANGED <<filterOpts, outputOpts, json, regex, words, kept, cases,
                   convertor, output, exitCode>>

\* wrap_text_with_converter: Captor::new(option("locator"))?.capture_words(text)
WrapCaptureWords ==
    /\ pc = "wrap_capture"
    /\ \/ /\ \E ws \in PipelineWordLists : words' = ws
          /\ pc' = "wrap_classify"
          /\ UNCHANGED result
       \/ /\ result' = OtherError
          /\ pc' = "exit"
          /\ UNCHANGED words
    /\ UNCHANGED <<filterOpts, outputOpts, json, regex, filter, kept, cases,
                   convertor, output, exitCode>>

\* wrap_text_with_converter: .to_naming_cases_from(words)
WrapToNamingCases ==
    /\ pc = "wrap_classify"
    /\ cases' = to_naming_cases_from(filter.val, words)
    /\ pc' = IF cases'.st = "panic" THEN "panicked" ELSE "wrap_convertor_new"
    /\ UNCHANGED <<filterOpts, outputOpts, json, regex, words, filter, kept,
                   convertor, output, result, exitCode>>

\* wrap_text_with_converter: Convertor::new(option("output"), cases)
WrapConvertorNew ==
    /\ pc = "wrap_convertor_new"
    /\ convertor' = Convertor_new(outputOpts, cases.val)
    /\ pc' = "output"
    /\ UNCHANGED <<filterOpts, outputOpts, json, regex, words, filter, kept,
                   cases, output, result, exitCode>>

output_as_string(json_flag_is_passed, regex_flag_is_passed, self) ==
    IF json_flag_is_passed /\ regex_flag_is_passed THEN into_regex_json(self)
    ELSE IF json_flag_is_passed THEN into_json(self)
    ELSE IF regex_flag_is_passed THEN into_regex(self)
    ELSE into_lines(self)

OutputAsString ==
    /\ pc = "output"
    /\ output' = output_as_string(json, regex, convertor)
    /\ IF output'.st = "panic"
       THEN pc' = "panicked" /\ UNCHANGED result
       ELSE pc' = "exit" /\ result' = output'
    /\ UNCHANGED <<filterOpts, outputOpts, json, regex, words, filter, kept,
                   cases, convertor, exitCode>>

\* main: print the output and exit 0, or print the error and exit 1.
MainExit ==
    /\ pc = "exit"
    /\ exitCode' = IF result.st = "ok" THEN 0 ELSE 1
    /\ pc' = "done"
    /\ UNCHANGED <<filterOpts, outputOpts, json, regex, words, filter, kept,
                   cases, convertor, output, result>>

Next ==
    \/ GetTextFromInput
    \/ WrapFilterNew
    \/ WrapCaptureWords
    \/ WrapToNamingCases
    \/ WrapConvertorNew
    \/ OutputAsString
    \/ MainExit

Spec == Init /\ [][Next]_vars

\* ---------------------------------------------------- claims on the Filter
\* What the specification says of a tag: the predicate it selects.
TagPredicate(t, w) ==
    CASE t = "S" -> is_screaming_snake(w)
      [] t = "s" -> is_snake(w)
      [] t = "k" -> is_kebab(w)
      [] t \in {"c", "h"} -> is_camel(w)
      [] t = "p" -> is_pascal(w)

MatchesSelected(options, w) == \E t \in Range(options) : TagPredicate(t, w)

Survivors(options, ws) == SelectSeq(ws, LAMBDA w : MatchesSelected(options, w))

\* p is w without its leading run of lowercase letters.
IsStrippedOf(p, w) ==
    \E k \in 0..Len(w) :
        /\ \A i \in 1..k : w[i] \in Lowers
        /\ p = SubSeq(w, k + 1, Len(w))
        /\ (p = <<>> \/ p[1] \notin Lowers)

C2_FilterWordsIsStableSubsequence ==
    kept.st # "none" =>
        /\ kept.st = "ok"
        /\ kept.val = Survivors(filterOpts, words)

\* C3: with an empty option list filterWords and toClassifiedTokens return
\* the empty list for every token list, as a normal result.
C3_EmptyOptionsGiveEmptyResult ==
    filterOpts = <<>> =>
        /\ kept.st # "none" => kept = Ok(<<>>)
        /\ cases.st # "none" => cases = Ok(<<>>)

\* C4: toClassifiedTokens yields one Classified Token per surviving token, in
\* order: Pascal with the lowercase prefix stripped when h is requested and
\* the token is camel-shaped, the ordinary classification of the unmodified
\* token otherwise.
C4_HungarianRewriteOrOrdinaryClassification ==
    cases.st = "ok" =>
        LET surv == Survivors(filterOpts, words)
        IN  /\ Len(cases.val) = Len(surv)
            /\ \A i \in 1..Len(surv) :
                  IF "h" \in Range(filterOpts) /\ is_camel(surv[i])
                  THEN /\ cases.val[i].tag = "Pascal"
                       /\ IsStrippedOf(cases.val[i].payload, surv[i])
                  ELSE /\ cases.val[i].payload = surv[i]
                       /\ cases.val[i] = which_case(surv[i])

C4_Witness ==
    /\ pc = "classified"
    /\ filterOpts = <<"h", "s">>
    /\ words = << <<"a", "_", "a">>, <<"a", "A">> >>
    /\ cases = Ok(<< NamingCase("Snake", <<"a", "_", "a">>),
                     NamingCase("Pascal", <<"A">>) >>)

\* C9: every Classified Token returned by toClassifiedTokens carries the
\* first tag, in the order screaming-snake > snake > kebab > camel > pascal,
\* whose predicate its payload satisfies.
C9_TagIsFirstMatchingPredicate ==
    cases.st = "ok" =>
        \A i \in 1..Len(cases.val) :
            /\ cases.val[i].tag # "Invalid"
            /\ cases.val[i] = which_case(cases.val[i].payload)

\* ------------------------------------------------- claims on the Convertor
Shapes == {"lines", "json", "regex", "regex_json"}

StartsWith(s, prefix) ==
    Len(s) >= Len(prefix) /\ SubSeq(s, 1, Len(prefix)) = prefix

EndsWith(s, suffix) ==
    Len(s) >= Len(suffix) /\ SubSeq(s, Len(s) - Len(suffix) + 1, Len(s)) = suffix

Strip(s, prefix, suffix) == SubSeq(s, Len(prefix) + 1, Len(s) - Len(suffix))

\* The rendering the renderer tables give for an output tag.
ValueFor(t, case) ==
    CASE t = "S" -> to_screaming_snake(case)
      [] t = "s" -> to_snake(case)
      [] t = "k" -> to_kebab(case)
      [] t = "c" -> to_camel(case)
      [] t = "p" -> to_pascal(case)

LongName(t) ==
    CASE t = "S" -> "\"screaming_snake\":\""
      [] t = "s" -> "\"snake\":\""
      [] t = "k" -> "\"kebab\":\""
      [] t = "c" -> "\"camel\":\""
      [] t = "p" -> "\"pascal\":\""

FieldFor(t, case) == <<LongName(t)>> \o ValueFor(t, case) \o <<"\"">>

\* area holds exactly the renderings expected, in order, separated by sep.
RenderingsAre(area, sep, expected) ==
    IF expected = <<>> THEN area = <<>> ELSE SplitOn(area, sep) = expected

\* One line per token: the origin, a space, the renderings.
LinesFollowTags(out, self, sep) ==
    IF self.cases = <<>> THEN out = <<>>
    ELSE LET lines == SplitOn(out, "\n")
         IN  /\ Len(lines) = Len(self.cases)
             /\ \A i \in 1..Len(lines) :
                  LET head == to_string(self.cases[i]) \o <<" ">>
                  IN  /\ StartsWith(lines[i], head)
                      /\ RenderingsAre(Strip(lines[i], head, <<>>), sep,
                            [j \in 1..Len(self.options) |->
                                ValueFor(self.options[j], self.cases[i])])

\* The objects of {"result":[...]}: each ends at its closing brace.
JsonObjects(out) ==
    LET body == Strip(out, <<"{", "\"result\":", "[">>, <<"]", "}">>)
        pieces == SplitOn(body, "}")
    IN  [i \in 1..(Len(pieces) - 1) |->
            IF i = 1 THEN pieces[i] \o <<"}">> ELSE Tail(pieces[i]) \o <<"}">>]

JsonFramed(out) ==
    /\ StartsWith(out, <<"{", "\"result\":", "[">>)
    /\ EndsWith(out, <<"]", "}">>)
    /\ LET body == Strip(out, <<"{", "\"result\":", "[">>, <<"]", "}">>)
           pieces == SplitOn(body, "}")
       IN  /\ pieces[Len(pieces)] = <<>>
           /\ \A i \in 2..(Len(pieces) - 1) : StartsWith(pieces[i], <<",">>)

JsonFollowsTags(out, self) ==
    /\ JsonFramed(out)
    /\ LET objs == JsonObjects(out)
       IN  /\ Len(objs) = Len(self.cases)
           /\ \A i \in 1..Len(self.cases) :
                LET head == <<"{", "\"origin\":\"">> \o to_string(self.cases[i])
                                \o <<"\"", ",">>
                IN  /\ StartsWith(objs[i], head)
                    /\ RenderingsAre(Strip(objs[i], head, <<"}">>), ",",
                           [j \in 1..Len(self.options) |->
                               FieldFor(self.options[j], self.cases[i])])

RegexJsonFollowsTags(out, self) ==
    /\ JsonFramed(out)
    /\ LET objs == JsonObjects(out)
       IN  /\ Len(objs) = Len(self.cases)
           /\ \A i \in 1..Len(self.cases) :
                LET head == <<"{", "\"origin\":\"">> \o to_string(self.cases[i])
                                \o <<"\"", ",", "\"regex\":\"">>
                IN  /\ StartsWith(objs[i], head)
                    /\ EndsWith(objs[i], <<"\"", "}">>)
                    /\ RenderingsAre(Strip(objs[i], head, <<"\"", "}">>), "|",
                           [j \in 1..Len(self.options) |->
                               ValueFor(self.options[j], self.cases[i])])

\* C5: for every output tag list over S,s,k,c,p, repeats included, each of
\* the four outputs holds one rendering per element of the list, the i-th
\* rendering being the one of the i-th tag.
C5_RenderingsFollowOptionOrder ==
    Range(convertor.options) \subseteq RenderTags =>
        /\ pc # "panicked"
        /\ pc = "lines" => LinesFollowTags(output.val, convertor, " ")
        /\ pc = "regex" => LinesFollowTags(output.val, convertor, "|")
        /\ pc = "json" => JsonFollowsTags(output.val, convertor)
        /\ pc = "regex_json" => RegexJsonFollowsTags(output.val, convertor)

C5_Witness ==
    /\ pc = "lines"
    /\ convertor.options = <<"p", "s">>
    /\ convertor.cases = << NamingCase("Snake", <<"a", "_", "a">>) >>
    /\ output = Ok(<<"a", "_", "a", " ", "A", "A", " ", "a", "_", "a">>)

NoTrailingSeparator(s) ==
    \A i \in 1..(Len(s) - 1) : s[i] = "," => s[i + 1] \notin {"}", "]"}

\* C6: for every output tag list and every token list, the empty ones
\* included, toJson is {"result":[...]} with one object per token: the origin
\* field, then the fields in tag order, comma-joined, and no comma directly
\* before a closing brace or bracket.
C6_JsonHasNoTrailingSeparator ==
    (pc = "json" /\ Range(convertor.options) \subseteq RenderTags) =>
        /\ NoTrailingSeparator(output.val)
        /\ output.val =
             <<"{", "\"result\":", "[">>
             \o Join([i \in 1..Len(convertor.cases) |->
                        <<"{">>
                        \o Join(<< <<"\"origin\":\"">> \o convertor.cases[i].payload
                                        \o <<"\"">> >>
                                \o [j \in 1..Len(convertor.options) |->
                                        FieldFor(convertor.options[j],
                                                 convertor.cases[i])],
                                ",")
                        \o <<"}">>],
                     ",")
             \o <<"]", "}">>

\* C7: rendering is total: for every output option list over S,s,k,c,h,p
\* and every list of classified tokens each of the four outputs is a string,
\* never a panic.
C7_RenderingIsTotal ==
    Range(convertor.options) \subseteq FilterTags =>
        /\ pc # "panicked"
        /\ pc \in Shapes => output.st = "ok"

VariantOf(t) ==
    CASE t = "S" -> "ScreamingSnake"
      [] t = "s" -> "Snake"
      [] t = "k" -> "Kebab"
      [] t = "c" -> "Camel"
      [] t = "p" -> "Pascal"

\* C8: a Classified Token rendered under the output tag of its own variant
\* gives back its payload: toLines with that single tag prints the original
\* string twice on the token's line.
C8_RoundTripUnderOwnTag ==
    (pc = "lines" /\ Len(convertor.options) = 1) =>
        \A i \in 1..Len(convertor.cases) :
            convertor.cases[i].tag = VariantOf(convertor.options[1]) =>
                SplitOn(output.val, "\n")[i] =
                    convertor.cases[i].payload \o <<" ">> \o convertor.cases[i].payload

C8_Witness ==
    /\ pc = "lines"
    /\ convertor.options = <<"c">>
    /\ convertor.cases = << NamingCase("Camel", <<"a", "A">>) >>
    /\ output = Ok(<<"a", "A", " ", "a", "A">>)

\* ------------------------------------------- claims on the end-to-end run
\* C10: when the filter option list holds both h and c, the run ends with
\* ConflictingOptions: nothing is classified, no Convertor is built, nothing
\* is rendered, and the operation returns the error, not an output string.
C10_ConflictShortCircuitsPipeline ==
    ({"h", "c"} \subseteq Range(filterOpts) /\ filter.st # "none") =>
        /\ filter = ConflictingOptions
        /\ pc \in {"exit", "done"}
        /\ words = <<>>
        /\ cases = NotRun
        /\ convertor = NoConvertor
        /\ output = NotRun
        /\ result = ConflictingOptions
        /\ pc = "done" => exitCode = 1

C10_Witness ==
    /\ pc = "done"
    /\ filterOpts = <<"c", "h">>
    /\ result = ConflictingOptions
    /\ cases = NotRun
    /\ output = NotRun
    /\ exitCode = 1

====
